---- MODULE Spec2Model ----
(***************************************************************************)
(* Context Rot Monitor: the drift-detection engine (backend/drift_engine.py)*)
(* the API server and its process-wide engine (backend/main.py), the        *)
(* supervisor (backend/supervisor.py) and the demo loop (demo.py).          *)
(*                                                                          *)
(* Representation.  A text is the sequence of its whitespace-separated      *)
(* words, so "" is <<>> and f"{a} {b}" is a \o b.  An Optional value is a   *)
(* sequence of length 0 (None) or 1.  Scores and thresholds are in          *)
(* hundredths (0.45 is 45), scores rounded down; 101 stands for a double    *)
(* just above 1.0.  ConversationTurn.timestamp is not modelled: nothing     *)
(* reads it.                                                                *)
(***************************************************************************)
EXTENDS Integers, Sequences, FiniteSets

VARIABLES
    threshold,             \* DriftEngine.threshold
    check_interval,        \* DriftEngine.check_interval
    north_star,            \* DriftEngine.north_star : Optional[str]
    conversation_history,  \* DriftEngine.conversation_history
    drift_history,         \* DriftEngine.drift_history
    last_good_turn,        \* DriftEngine.last_good_turn
    all_texts,             \* DriftEngine.all_texts
    hosted,                \* TRUE: the engine is main.py's module global
    ret,                   \* the last call: operation, raised?, returned Verdict
    response,              \* main.py: the last HTTP response of the server
    analyzed,              \* supervisor.py: analyze_drift calls of the last request
    pc,                    \* demo.py: where run_demo stands
    turn,                  \* demo.py: run_demo's turn counter
    drift_detected,        \* demo.py: global drift_detected
    drift_started_turn,    \* demo.py: global drift_started_turn : Optional[int]
    intervention_applied,  \* demo.py: global intervention_applied
    user_input,            \* demo.py: the input of the iteration under way
    should_intervene,      \* demo.py: should_intervene of that iteration
    drift_data             \* demo.py: drift_data of the last analysis (Optional)

\* The server's response and the supervisor's call log.
service_vars == <<response, analyzed>>

\* The state of the demo process.
demo_vars == <<pc, turn, drift_detected, drift_started_turn,
               intervention_applied, user_input, should_intervene,
               drift_data>>

vars == <<threshold, check_interval, north_star, conversation_history,
          drift_history, last_good_turn, all_texts, hosted, ret,
          service_vars, demo_vars>>

----------------------------------------------------------------------------
(* Bounds *)

MaxTurns == 4
MaxChecks == 2
MaxDemoTurns == 4

(* Inputs *)

\* Goal texts offered to set_north_star: empty, stop word only, two content
\* words.
Goals == { <<>>, <<"the">>, <<"refund", "order">> }

\* (user_message, assistant_response) pairs offered to add_turn: content
\* words with a stop word, and stop words only with an empty response.
TurnInputs ==
    { <<<<"Refund">>, <<"the", "order">>>>,
      <<<<"the", "I">>, <<>>>> }

\* similarity_threshold values a standalone engine is constructed with (the
\* hosted engine runs with 0.7 and, after a reset, 0.45).
Thresholds == {50}

\* check_interval values a standalone engine is constructed with (the
\* hosted engine runs with 3).
Intervals == {1, 2}

----------------------------------------------------------------------------
(* Text helpers *)

\* str.lower() on one word.
Lower(w) ==
    CASE w = "Refund" -> "refund"
      [] w = "I" -> "i"
      [] OTHER -> w

\* set(text.lower().split())
WordSet(text) == { Lower(text[i]) : i \in 1..Len(text) }

\* sklearn's English stop words among the words used here.
StopWords == {"the", "i", "no"}

\* Words the default token_pattern (two or more word characters) drops.
OneCharWords == {"i"}

RECURSIVE Analyze(_)
\* TfidfVectorizer's analyzer up to n-grams: lowercase, tokenise, drop
\* stop words.
Analyze(text) ==
    IF text = <<>> THEN <<>>
    ELSE LET w == Lower(Head(text))
         IN  IF w \in OneCharWords \/ w \in StopWords
             THEN Analyze(Tail(text))
             ELSE <<w>> \o Analyze(Tail(text))

\* ngram_range=(1, 2): the distinct unigrams and bigrams of a token list.
Terms(toks) ==
    { <<toks[i]>> : i \in 1..Len(toks) }
      \cup { <<toks[i], toks[i+1]>> : i \in 1..(Len(toks) - 1) }

\* Term frequency of a unigram or bigram in a token list.
Tf(term, toks) ==
    IF Len(term) = 1
    THEN Cardinality({ i \in 1..Len(toks) : toks[i] = term[1] })
    ELSE Cardinality({ i \in 1..(Len(toks) - 1) :
                          toks[i] = term[1] /\ toks[i+1] = term[2] })

RECURSIVE SumOver(_, _)
\* Sum of f[t] over the finite set S.
SumOver(S, f) ==
    IF S = {} THEN 0
    ELSE LET t == CHOOSE x \in S : TRUE
         IN  f[t] + SumOver(S \ {t}, f)

\* Largest r with r*r <= n, for n in 0..10000.
ISqrt(n) == CHOOSE r \in 0..100 : r * r <= n /\ (r + 1) * (r + 1) > n


----------------------------------------------------------------------------
(* Similarity *)

\* fit_transform raises ValueError("empty vocabulary") when no term of
\* either text survives the analyzer.
VectorizerFails(a, b) == Terms(Analyze(a)) \cup Terms(Analyze(b)) = {}

\* Squared tf-idf weights in fortieths: a term in both documents has
\* idf = 1, a term in one of the two has idf = ln(3/2) + 1, whose square
\* 1.9753 is taken as 79/40.
IdfSqBoth == 40
IdfSqOne == 79

\* Numbers k of terms for which the double-precision cosine of two rows of
\* k equal weights (each row normalised by fit_transform and again by
\* cosine_similarity, then multiplied out) comes out as 1.0000000000000002
\* or more instead of 1.0; cosine_similarity does not clip.
TermCountsRoundingAboveOne == {2, 3, 5, 6, 7}

\* Both rows have the same terms, each with one weight for all its terms.
EqualWeightRows(ta, tb) ==
    /\ Terms(ta) = Terms(tb)
    /\ \A s \in Terms(ta), t \in Terms(ta) :
           Tf(s, ta) = Tf(t, ta) /\ Tf(s, tb) = Tf(t, tb)

\* cosine_similarity(vectors[0:1], vectors[1:2]) of the tf-idf rows of a and
\* b fitted together, in hundredths, rounded down.  A row without terms is
\* the zero vector and gives 0.
TfidfCosine(a, b) ==
    LET ta == Analyze(a)
        tb == Analyze(b)
        both == Terms(ta) \cap Terms(tb)
        dot == SumOver(both, [t \in both |-> Tf(t, ta) * Tf(t, tb)])
        NormSq(toks) ==
            LET own == Terms(toks) \ both
            IN  IdfSqBoth * SumOver(both, [t \in both |-> Tf(t, toks) * Tf(t, toks)])
                + IdfSqOne * SumOver(own, [t \in own |-> Tf(t, toks) * Tf(t, toks)])
        na == NormSq(ta)
        nb == NormSq(tb)
    IN  IF na = 0 \/ nb = 0 THEN 0
        ELSE IF /\ EqualWeightRows(ta, tb)
                /\ Cardinality(Terms(ta)) \in TermCountsRoundingAboveOne
        THEN 101
        ELSE ISqrt((dot * dot * IdfSqBoth * IdfSqBoth * 10000) \div (na * nb))

\* Variant: the ratio is taken over the two set sizes added up.
WordOverlap_SumOfSizes(a, b) ==
    LET north_words == WordSet(a)
        current_words == WordSet(b)
    IN  IF Cardinality(north_words \cup current_words) > 0
        THEN (100 * Cardinality(north_words \cap current_words))
                 \div (Cardinality(north_words) + Cardinality(current_words))
        ELSE 0

\* The except branch of check_drift: word overlap ratio, in hundredths,
\* rounded down.
WordOverlap(a, b) ==
    LET north_words == WordSet(a)
        current_words == WordSet(b)
    IN  IF Cardinality(north_words \cup current_words) > 0
        THEN (100 * Cardinality(north_words \cap current_words))
                 \div Cardinality(north_words \cup current_words)
        ELSE 0

\* The try/except of check_drift.
Similarity(a, b) ==
    IF VectorizerFails(a, b) THEN WordOverlap(a, b) ELSE TfidfCosine(a, b)

----------------------------------------------------------------------------
(* DriftEngine *)

ConversationTurn(n, u, a) ==
    [turn_number |-> n, user_message |-> u, assistant_response |-> a]

DriftMetrics(n, s, d, g) ==
    [turn_number |-> n, similarity_score |-> s, is_drifting |-> d,
     last_good_turn |-> g, drift_reason |-> <<>>]

\* Variant: history[:3], the oldest three turns.
LastThree_FirstThree(h) == SubSeq(h, 1, IF Len(h) > 3 THEN 3 ELSE Len(h))

\* Python's history[-3:].
LastThree(h) == SubSeq(h, IF Len(h) > 3 THEN Len(h) - 2 ELSE 1, Len(h))

RECURSIVE JoinTurns(_)
\* " ".join(f"{t.user_message} {t.assistant_response}" for t in turns)
JoinTurns(turns) ==
    IF turns = <<>> THEN <<>>
    ELSE Head(turns).user_message \o Head(turns).assistant_response
             \o JoinTurns(Tail(turns))

generate_state_summary(history) == JoinTurns(LastThree(history))

\* `not self.north_star`: None or the empty string.
NorthStarFalsy(ns) == ns = <<>> \/ ns[1] = <<>>

\* Variant: the comparison with the threshold is not strict.
IsDrifting_NotStrict(similarity, th) == similarity <= th

\* similarity < self.threshold
IsDrifting(similarity, th) == similarity < th

\* Variant: a drifting evaluation falls back to the initial good turn.
UpdatedLastGood_ResetOnDrift(is_drifting, history, lgt) ==
    IF ~is_drifting THEN Len(history) ELSE 1

\* Variant: the good turn is moved on every evaluation.
UpdatedLastGood_Always(is_drifting, history, lgt) == Len(history)

\* Variant: the good turn is the number of the turn to come.
UpdatedLastGood_NextTurn(is_drifting, history, lgt) ==
    IF ~is_drifting THEN Len(history) + 1 ELSE lgt

\* The last_good_turn check_drift leaves behind.
UpdatedLastGood(is_drifting, history, lgt) ==
    IF ~is_drifting THEN Len(history) ELSE lgt

\* The DriftMetrics check_drift builds on an engine whose goal passes the
\* guard.
Evaluate(ns, history, lgt, th) ==
    LET similarity == Similarity(ns[1], generate_state_summary(history))
        is_drifting == IsDrifting(similarity, th)
    IN  DriftMetrics(Len(history), similarity, is_drifting,
                     UpdatedLastGood(is_drifting, history, lgt))

\* turn_number % self.check_interval == 0
IntervalHit(turn_number, ci) == turn_number % ci = 0

\* Record of a call: the operation, whether it raised, the Optional
\* DriftMetrics it returned, len(drift_history) when it was entered, and
\* the dict or the text a read returned (Optional, set by the reads).
Call(op, raised, verdict) ==
    [op |-> op, raised |-> raised, verdict |-> verdict,
     checks_before |-> Len(drift_history),
     summary |-> <<>>, text |-> <<>>]

\* Variant: the drift status is read from the first verdict.
get_conversation_summary_FirstVerdict ==
    [total_turns |-> Len(conversation_history),
     north_star |-> north_star,
     last_good_turn |-> last_good_turn,
     current_drift_status |->
         IF drift_history # <<>>
         THEN drift_history[1].is_drifting
         ELSE FALSE,
     drift_checks |-> Len(drift_history)]

\* The scalar fields of get_conversation_summary's dict.
get_conversation_summary ==
    [total_turns |-> Len(conversation_history),
     north_star |-> north_star,
     last_good_turn |-> last_good_turn,
     current_drift_status |->
         IF drift_history # <<>>
         THEN drift_history[Len(drift_history)].is_drifting
         ELSE FALSE,
     drift_checks |-> Len(drift_history)]

\* DriftEngine(similarity_threshold, check_interval)
Construct(th, ci) ==
    /\ threshold' = th
    /\ check_interval' = ci
    /\ north_star' = <<>>
    /\ conversation_history' = <<>>
    /\ drift_history' = <<>>
    /\ last_good_turn' = 0
    /\ all_texts' = <<>>

\* An HTTP response: the endpoint, the status code and the Optional JSON
\* body (None for null and for an error).
Response(endpoint, status, body) ==
    [endpoint |-> endpoint, status |-> status, body |-> body]

\* No request has been served and the supervisor has not been called.
NoRequest ==
    /\ response = Response("", 0, <<>>)
    /\ analyzed = <<>>

\* demo.py's module globals as the module sets them; pc = "off": run_demo
\* is not running.
DemoGlobals(at) ==
    /\ pc = at
    /\ turn = 1
    /\ drift_detected = FALSE
    /\ drift_started_turn = <<>>
    /\ intervention_applied = FALSE
    /\ user_input = <<>>
    /\ should_intervene = FALSE
    /\ drift_data = <<>>

Init ==
    /\ NoRequest
    /\ DemoGlobals("off")
    /\ \/ hosted = TRUE /\ threshold = 70 /\ check_interval = 3
       \/ hosted = FALSE /\ threshold \in Thresholds /\ check_interval \in Intervals
    /\ north_star = <<>>
    /\ conversation_history = <<>>
    /\ drift_history = <<>>
    /\ last_good_turn = 0
    /\ all_texts = <<>>
    /\ ret = Call("init", FALSE, <<>>)

\* Variant: the goal starts a new session, both histories are emptied.
set_north_star_Resets(initial_prompt) ==
    /\ north_star' = <<initial_prompt>>
    /\ all_texts' = <<initial_prompt>>
    /\ last_good_turn' = 1
    /\ conversation_history' = <<>>
    /\ drift_history' = <<>>
    /\ ret' = Call("set_north_star", FALSE, <<>>)
    /\ UNCHANGED <<threshold, check_interval, hosted>>

set_north_star(initial_prompt) ==
    /\ north_star' = <<initial_prompt>>
    /\ all_texts' = <<initial_prompt>>
    /\ last_good_turn' = 1
    /\ ret' = Call("set_north_star", FALSE, <<>>)
    /\ UNCHANGED <<threshold, check_interval, conversation_history,
                   drift_history, hosted>>

\* Variant: no guard, a missing goal is compared as the empty text.
check_drift_Unguarded ==
    /\ Len(drift_history) < MaxChecks
    /\ LET ns == IF north_star = <<>> THEN <<<<>>>> ELSE north_star
           metrics == Evaluate(ns, conversation_history, last_good_turn,
                               threshold)
       IN  /\ last_good_turn' = metrics.last_good_turn
           /\ drift_history' = Append(drift_history, metrics)
           /\ ret' = Call("check_drift", FALSE, <<metrics>>)
    /\ UNCHANGED <<threshold, check_interval, north_star,
                   conversation_history, all_texts, hosted>>

\* Variant: a verdict for a turn count already evaluated is returned but
\* not recorded again.
check_drift_Dedup ==
    /\ Len(drift_history) < MaxChecks
    /\ IF NorthStarFalsy(north_star)
       THEN /\ ret' = Call("check_drift", TRUE, <<>>)
            /\ UNCHANGED <<drift_history, last_good_turn>>
       ELSE LET metrics == Evaluate(north_star, conversation_history,
                                    last_good_turn, threshold)
                seen == /\ drift_history # <<>>
                        /\ drift_history[Len(drift_history)].turn_number
                               = metrics.turn_number
            IN  /\ last_good_turn' = metrics.last_good_turn
                /\ drift_history' = IF seen THEN drift_history
                                     ELSE Append(drift_history, metrics)
                /\ ret' = Call("check_drift", FALSE, <<metrics>>)
    /\ UNCHANGED <<threshold, check_interval, north_star,
                   conversation_history, all_texts, hosted>>

\* Variant: the compared text is also logged in all_texts.
check_drift_LogsText ==
    /\ Len(drift_history) < MaxChecks
    /\ IF NorthStarFalsy(north_star)
       THEN /\ ret' = Call("check_drift", TRUE, <<>>)
            /\ UNCHANGED <<drift_history, last_good_turn, all_texts>>
       ELSE LET metrics == Evaluate(north_star, conversation_history,
                                    last_good_turn, threshold)
            IN  /\ last_good_turn' = metrics.last_good_turn
                /\ drift_history' = Append(drift_history, metrics)
                /\ all_texts' = Append(all_texts,
                       generate_state_summary(conversation_history))
                /\ ret' = Call("check_drift", FALSE, <<metrics>>)
    /\ UNCHANGED <<threshold, check_interval, north_star,
                   conversation_history, hosted>>

check_drift ==
    /\ Len(drift_history) < MaxChecks
    /\ IF NorthStarFalsy(north_star)
       THEN /\ ret' = Call("check_drift", TRUE, <<>>)
            /\ UNCHANGED <<drift_history, last_good_turn>>
       ELSE LET metrics == Evaluate(north_star, conversation_history,
                                    last_good_turn, threshold)
            IN  /\ last_good_turn' = metrics.last_good_turn
                /\ drift_history' = Append(drift_history, metrics)
                /\ ret' = Call("check_drift", FALSE, <<metrics>>)
    /\ UNCHANGED <<threshold, check_interval, north_star,
                   conversation_history, all_texts, hosted>>

\* Variant: turns are numbered from 0.
add_turn_ZeroBased(user_message, assistant_response) ==
    LET turn_number == Len(conversation_history)
        history == Append(conversation_history,
                          ConversationTurn(turn_number, user_message,
                                           assistant_response))
    IN  /\ Len(conversation_history) < MaxTurns
        /\ Len(drift_history) < MaxChecks
        /\ conversation_history' = history
        /\ all_texts' = Append(all_texts, user_message \o assistant_response)
        /\ IF ~IntervalHit(turn_number, check_interval)
           THEN /\ ret' = Call("add_turn", FALSE, <<>>)
                /\ UNCHANGED <<drift_history, last_good_turn>>
           ELSE IF NorthStarFalsy(north_star)
           THEN /\ ret' = Call("add_turn", TRUE, <<>>)
                /\ UNCHANGED <<drift_history, last_good_turn>>
           ELSE LET metrics == Evaluate(north_star, history, last_good_turn,
                                        threshold)
                IN  /\ last_good_turn' = metrics.last_good_turn
                    /\ drift_history' = Append(drift_history, metrics)
                    /\ ret' = Call("add_turn", FALSE, <<metrics>>)
        /\ UNCHANGED <<threshold, check_interval, north_star, hosted>>

add_turn(user_message, assistant_response) ==
    LET turn_number == Len(conversation_history) + 1
        history == Append(conversation_history,
                          ConversationTurn(turn_number, user_message,
                                           assistant_response))
    IN  /\ Len(conversation_history) < MaxTurns
        /\ IntervalHit(turn_number, check_interval) => Len(drift_history) < MaxChecks
        /\ conversation_history' = history
        /\ all_texts' = Append(all_texts, user_message \o assistant_response)
        /\ IF ~IntervalHit(turn_number, check_interval)
           THEN /\ ret' = Call("add_turn", FALSE, <<>>)
                /\ UNCHANGED <<drift_history, last_good_turn>>
           ELSE IF NorthStarFalsy(north_star)
           THEN /\ ret' = Call("add_turn", TRUE, <<>>)
                /\ UNCHANGED <<drift_history, last_good_turn>>
           ELSE LET metrics == Evaluate(north_star, history, last_good_turn,
                                        threshold)
                IN  /\ last_good_turn' = metrics.last_good_turn
                    /\ drift_history' = Append(drift_history, metrics)
                    /\ ret' = Call("add_turn", FALSE, <<metrics>>)
        /\ UNCHANGED <<threshold, check_interval, north_star, hosted>>

\* A call of DriftEngine.generate_state_summary by a collaborator.
call_generate_state_summary ==
    /\ ret' = [Call("generate_state_summary", FALSE, <<>>) EXCEPT
                  !.text = <<generate_state_summary(conversation_history)>>]
    /\ UNCHANGED <<threshold, check_interval, north_star,
                   conversation_history, drift_history, last_good_turn,
                   all_texts, hosted>>

\* Variant: the summary refreshes the drift status with an evaluation.
call_get_conversation_summary_Evaluates ==
    /\ Len(drift_history) < MaxChecks
    /\ ~NorthStarFalsy(north_star)
    /\ LET metrics == Evaluate(north_star, conversation_history,
                               last_good_turn, threshold)
       IN  /\ last_good_turn' = metrics.last_good_turn
           /\ drift_history' = Append(drift_history, metrics)
    /\ ret' = [Call("get_conversation_summary", FALSE, <<>>) EXCEPT
                  !.summary = <<get_conversation_summary>>]
    /\ UNCHANGED <<threshold, check_interval, north_star,
                   conversation_history, all_texts, hosted>>

\* A call of DriftEngine.get_conversation_summary.
call_get_conversation_summary ==
    /\ ret' = [Call("get_conversation_summary", FALSE, <<>>) EXCEPT
                  !.summary = <<get_conversation_summary>>]
    /\ UNCHANGED <<threshold, check_interval, north_star,
                   conversation_history, drift_history, last_good_turn,
                   all_texts, hosted>>

\* POST /reset of main.py: the global is rebound to a new engine.
reset_conversation ==
    /\ hosted
    /\ Construct(45, 3)
    /\ ret' = Call("reset", FALSE, <<>>)
    /\ UNCHANGED hosted

\* The engine called directly: no request is served, no demo runs.
Next ==
    \/ (\E g \in Goals : set_north_star(g))
           /\ UNCHANGED <<service_vars, demo_vars>>
    \/ (\E t \in TurnInputs : add_turn(t[1], t[2]))
           /\ UNCHANGED <<service_vars, demo_vars>>
    \/ check_drift /\ UNCHANGED <<service_vars, demo_vars>>
    \/ call_generate_state_summary /\ UNCHANGED <<service_vars, demo_vars>>
    \/ call_get_conversation_summary /\ UNCHANGED <<service_vars, demo_vars>>
    \/ reset_conversation /\ UNCHANGED <<service_vars, demo_vars>>

Spec == Init /\ [][Next]_vars

----------------------------------------------------------------------------
(* The fallback score as a function of two texts *)

\* Texts the fallback is applied to.
FallbackTexts ==
    { <<>>, <<"the">>, <<"I">>, <<"refund">>, <<"Refund">>,
      <<"refund", "order">>, <<"Refund", "the", "order">>,
      <<"login", "email">>, <<"the", "I">>, <<"refund", "refund">> }

\* An engine holding a goal text and one turn whose text is the second
\* argument.
InitFallback ==
    /\ NoRequest
    /\ DemoGlobals("off")
    /\ hosted = FALSE
    /\ threshold = 45
    /\ check_interval = 3
    /\ north_star \in { <<a>> : a \in FallbackTexts }
    /\ conversation_history \in
           { <<ConversationTurn(1, b, <<>>)>> : b \in FallbackTexts }
    /\ drift_history = <<>>
    /\ last_good_turn = 1
    /\ all_texts = <<north_star[1], conversation_history[1].user_message>>
    /\ ret = Call("init", FALSE, <<>>)

\* The except branch of check_drift on its own: the vectorizer has raised
\* and the word overlap of the goal and the current state is the score.
word_overlap_fallback ==
    /\ drift_history = <<>>
    /\ LET similarity == WordOverlap(north_star[1],
                              generate_state_summary(conversation_history))
           is_drifting == IsDrifting(similarity, threshold)
           metrics == DriftMetrics(Len(conversation_history), similarity,
                          is_drifting,
                          UpdatedLastGood(is_drifting, conversation_history,
                                          last_good_turn))
       IN  /\ last_good_turn' = metrics.last_good_turn
           /\ drift_history' = Append(drift_history, metrics)
           /\ ret' = Call("word_overlap", FALSE, <<metrics>>)
    /\ UNCHANGED <<threshold, check_interval, north_star,
                   conversation_history, all_texts, hosted>>

NextFallback == word_overlap_fallback /\ UNCHANGED <<service_vars, demo_vars>>

SpecFallback == InitFallback /\ [][NextFallback]_vars

----------------------------------------------------------------------------
(* LLMSupervisor *)

\* Python's x.get(key, default) and `x or default` on an Optional value.
GetOr(opt, default) == IF opt = <<>> THEN default ELSE opt[1]

\* Outcomes of the remote chat completion and json.loads: <<>> when either
\* raises, else the parsed object, each key Optional (absent or given): a
\* full answer, an answer saying the goal is still pursued, an empty object.
RemoteOutcomes ==
    { <<>>,
      <<[pursuing_goal |-> <<FALSE>>, distraction |-> << <<"login">> >>,
         realignment |-> << <<"return", "to", "refund">> >>,
         confidence |-> <<"high">>]>>,
      <<[pursuing_goal |-> <<TRUE>>, distraction |-> <<>>,
         realignment |-> << <<"continue">> >>,
         confidence |-> <<"low">>]>>,
      <<[pursuing_goal |-> <<>>, distraction |-> <<>>,
         realignment |-> <<>>, confidence |-> <<>>]>> }

SupervisorAnalysis(is_pursuing_goal, distraction, realignment, confidence) ==
    [is_pursuing_goal |-> is_pursuing_goal, distraction |-> distraction,
     realignment_instruction |-> realignment,
     confidence |-> confidence]

\* The score from which the fallback analysis takes the goal as pursued.
FallbackPursuingFrom == 45

\* Variant: the fallback takes the goal as pursued only above 0.45.
analyze_drift_Strict(goal, current_conversation, similarity_score, remote) ==
    IF remote # <<>>
    THEN LET result == remote[1]
         IN  SupervisorAnalysis(GetOr(result.pursuing_goal, FALSE),
                 result.distraction,
                 GetOr(result.realignment,
                       <<"Return", "to", "the", "original", "goal.">>),
                 GetOr(result.confidence, "medium"))
    ELSE SupervisorAnalysis(similarity_score > FallbackPursuingFrom,
             << <<"Unable", "to", "analyze", "(API", "error)">> >>,
             <<"Refocus", "on:">> \o goal,
             "low")

\* LLMSupervisor.analyze_drift: the analysis built from the remote answer,
\* or the fallback analysis of the except branch.
analyze_drift(goal, current_conversation, similarity_score, remote) ==
    IF remote # <<>>
    THEN LET result == remote[1]
         IN  SupervisorAnalysis(GetOr(result.pursuing_goal, FALSE),
                 result.distraction,
                 GetOr(result.realignment,
                       <<"Return", "to", "the", "original", "goal.">>),
                 GetOr(result.confidence, "medium"))
    ELSE SupervisorAnalysis(similarity_score >= FallbackPursuingFrom,
             << <<"Unable", "to", "analyze", "(API", "error)">> >>,
             <<"Refocus", "on:">> \o goal,
             "low")

\* `analysis.distraction or '...'`: None and the empty text give the
\* default.
DistractionOrDefault(distraction) ==
    IF distraction = <<>> \/ distraction[1] = <<>>
    THEN <<"Conversation", "has", "drifted", "from", "original", "intent">>
    ELSE distraction[1]

\* LLMSupervisor.generate_intervention_prompt
generate_intervention_prompt(goal, analysis) ==
    <<"DRIFT", "DETECTED", "Original", "Goal:">> \o goal
        \o <<"Issue", "Identified:">>
        \o DistractionOrDefault(analysis.distraction)
        \o <<"Action", "Required:">> \o analysis.realignment_instruction
        \o <<"Please", "redirect", "focus">>

\* Record of an analyze_drift call: its arguments, whether the remote call
\* failed, whether analyze_drift raised, and the analysis it returned.
AnalyzeCall(goal, current_conversation, similarity_score, remote) ==
    [north_star |-> goal,
     current_conversation |-> current_conversation,
     similarity_score |-> similarity_score,
     remote_failed |-> remote = <<>>,
     raised |-> FALSE,
     analysis |-> analyze_drift(goal, current_conversation,
                                similarity_score, remote)]

\* Arguments analyze_drift is called with directly.
SupervisorGoals == Goals
SupervisorTexts == { <<>>, <<"Refund", "the", "order">>, <<"the", "I">> }
SupervisorScores == {0, 44, 45, 46, 70, 100, 101}

\* A call of LLMSupervisor.analyze_drift by any caller.
call_analyze_drift(goal, current_conversation, similarity_score, remote) ==
    /\ analyzed' = <<AnalyzeCall(goal, current_conversation,
                                 similarity_score, remote)>>
    /\ UNCHANGED <<threshold, check_interval, north_star,
                   conversation_history, drift_history, last_good_turn,
                   all_texts, hosted, ret, response, demo_vars>>

InitSupervisor ==
    /\ NoRequest
    /\ DemoGlobals("off")
    /\ hosted = TRUE /\ threshold = 70 /\ check_interval = 3
    /\ north_star = <<>>
    /\ conversation_history = <<>>
    /\ drift_history = <<>>
    /\ last_good_turn = 0
    /\ all_texts = <<>>
    /\ ret = Call("init", FALSE, <<>>)

NextSupervisor ==
    \E goal \in SupervisorGoals, current_conversation \in SupervisorTexts,
       similarity_score \in SupervisorScores, remote \in RemoteOutcomes :
        call_analyze_drift(goal, current_conversation, similarity_score,
                           remote)

SpecSupervisor == InitSupervisor /\ [][NextSupervisor]_vars

----------------------------------------------------------------------------
(* The API server *)

\* The supervisor_data dict of the two drift endpoints.
SupervisorData(analysis) ==
    [pursuing_goal |-> analysis.is_pursuing_goal,
     distraction |-> analysis.distraction,
     realignment |-> analysis.realignment_instruction,
     confidence |-> analysis.confidence]

DriftResponse(drift_metrics, supervisor_analysis, intervention_prompt) ==
    [turn_number |-> drift_metrics.turn_number,
     similarity_score |-> drift_metrics.similarity_score,
     is_drifting |-> drift_metrics.is_drifting,
     last_good_turn |-> drift_metrics.last_good_turn,
     supervisor_analysis |-> supervisor_analysis,
     intervention_prompt |-> intervention_prompt]

\* Variant: the supervisor analyses every verdict, drifting or not.
DriftReply_AnalyzesEveryVerdict(endpoint, call, goal, current_state) ==
    IF call.raised
    THEN /\ response' = Response(endpoint, 500, <<>>)
         /\ analyzed' = <<>>
    ELSE IF call.verdict = <<>>
    THEN /\ response' = Response(endpoint, 200, <<>>)
         /\ analyzed' = <<>>
    ELSE LET drift_metrics == call.verdict[1]
         IN  \E remote \in RemoteOutcomes :
                 LET made == AnalyzeCall(goal[1], current_state,
                                 drift_metrics.similarity_score, remote)
                 IN  /\ analyzed' = <<made>>
                     /\ response' = Response(endpoint, 200,
                            <<DriftResponse(drift_metrics,
                                  <<SupervisorData(made.analysis)>>,
                                  <<generate_intervention_prompt(goal[1],
                                        made.analysis)>>)>>)

\* What add_conversation_turn and manual_drift_check do with the outcome
\* of the engine call: HTTP 500 when it raised, null when add_turn returned
\* None, else a DriftResponse, with the supervisor's analysis of the goal,
\* the current state text and the score when the verdict is drifting.
DriftReply(endpoint, call, goal, current_state) ==
    IF call.raised
    THEN /\ response' = Response(endpoint, 500, <<>>)
         /\ analyzed' = <<>>
    ELSE IF call.verdict = <<>>
    THEN /\ response' = Response(endpoint, 200, <<>>)
         /\ analyzed' = <<>>
    ELSE LET drift_metrics == call.verdict[1]
         IN  IF drift_metrics.is_drifting
             THEN \E remote \in RemoteOutcomes :
                      LET made == AnalyzeCall(goal[1], current_state,
                                      drift_metrics.similarity_score, remote)
                      IN  /\ analyzed' = <<made>>
                          /\ response' = Response(endpoint, 200,
                                 <<DriftResponse(drift_metrics,
                                       <<SupervisorData(made.analysis)>>,
                                       <<generate_intervention_prompt(goal[1],
                                             made.analysis)>>)>>)
             ELSE /\ analyzed' = <<>>
                  /\ response' = Response(endpoint, 200,
                         <<DriftResponse(drift_metrics, <<>>, <<>>)>>)

\* POST /initialize
initialize_conversation(request_north_star) ==
    /\ set_north_star(request_north_star)
    /\ response' = Response("/initialize", 200, <<request_north_star>>)
    /\ analyzed' = <<>>

\* POST /add-turn
add_conversation_turn(user_message, assistant_response) ==
    /\ add_turn(user_message, assistant_response)
    /\ DriftReply("/add-turn", ret', north_star',
                  generate_state_summary(conversation_history'))

\* GET /check-drift
manual_drift_check ==
    /\ check_drift
    /\ DriftReply("/check-drift", ret', north_star',
                  generate_state_summary(conversation_history'))

\* Python's history[-5:].
LastFive(h) == SubSeq(h, IF Len(h) > 5 THEN Len(h) - 4 ELSE 1, Len(h))

\* GET /get-state: ConversationState declares north_star as str, so the
\* summary of an engine without a goal fails validation and gives HTTP 500.
get_conversation_state ==
    /\ call_get_conversation_summary
    /\ LET summary == ret'.summary[1]
       IN  response' =
               IF summary.north_star = <<>>
               THEN Response("/get-state", 500, <<>>)
               ELSE Response("/get-state", 200,
                        <<[total_turns |-> summary.total_turns,
                           north_star |-> summary.north_star[1],
                           last_good_turn |-> summary.last_good_turn,
                           current_drift_status |-> summary.current_drift_status,
                           drift_checks |-> summary.drift_checks,
                           recent_turns |-> LastFive(conversation_history)]>>)
    /\ analyzed' = <<>>

\* POST /reset with its response.
reset_request ==
    /\ reset_conversation
    /\ response' = Response("/reset", 200, <<>>)
    /\ analyzed' = <<>>

\* The server at start-up.
InitService == InitSupervisor

\* Requests of any client, one at a time.
NextService ==
    \/ (\E g \in Goals : initialize_conversation(g)) /\ UNCHANGED demo_vars
    \/ (\E t \in TurnInputs : add_conversation_turn(t[1], t[2]))
           /\ UNCHANGED demo_vars
    \/ manual_drift_check /\ UNCHANGED demo_vars
    \/ get_conversation_state /\ UNCHANGED demo_vars
    \/ reset_request /\ UNCHANGED demo_vars

SpecService == InitService /\ [][NextService]_vars

----------------------------------------------------------------------------
(* The demo loop *)

\* (user_input, agent_msg) pairs of the demo: those offered to add_turn and
\* a closing exchange.
DemoTurns == TurnInputs \cup { << <<"no">>, <<"welcome">> >> }

\* What the operator types: nothing, quit, or the user side of a pair.
DemoInputs == { <<>>, <<"quit">> } \cup { t[1] : t \in DemoTurns }

\* What generate_agent_response may return for an input.
AgentReplies(input) == { t[2] : t \in { x \in DemoTurns : x[1] = input } }

\* user_input.lower() in ['quit', 'exit']
IsQuit(input) == input \in { <<"quit">>, <<"exit">> }

\* 'no' in user_input.lower() and a closing phrase in agent_msg.lower(),
\* for the words used here.
NaturalEnding(input, agent_msg) ==
    /\ \E i \in 1..Len(input) : Lower(input[i]) = "no"
    /\ \E i \in 1..Len(agent_msg) : Lower(agent_msg[i]) = "welcome"

\* Variant: one turn of drifting is enough to intervene.
ShouldIntervene_AfterOneTurn(detected, applied, started, t) ==
    /\ detected
    /\ ~applied
    /\ started # <<>>
    /\ t - started[1] >= 1

\* should_intervene of an iteration: drift detected, no intervention yet,
\* and turns_drifting = turn - drift_started_turn >= 2.
ShouldIntervene(detected, applied, started, t) ==
    /\ detected
    /\ ~applied
    /\ started # <<>>
    /\ t - started[1] >= 2

\* check_drift of demo.py: the JSON body of a 200 response that has one,
\* else None.
DriftData(resp) ==
    IF resp.status = 200 /\ resp.body # <<>> THEN resp.body ELSE <<>>

\* Variant: an on-track verdict clears the flag whether or not an
\* intervention was applied.
UpdatedDriftFlags_ClearsAfterIntervention(detected, started, applied, data, t) ==
    IF data = <<>> THEN <<detected, started>>
    ELSE IF data[1].is_drifting
    THEN IF ~detected THEN <<TRUE, <<t>>>> ELSE <<detected, started>>
    ELSE IF detected
    THEN <<FALSE, <<>>>>
    ELSE <<detected, started>>

\* drift_detected and drift_started_turn after the analysis of an
\* iteration.
UpdatedDriftFlags(detected, started, applied, data, t) ==
    IF data = <<>> THEN <<detected, started>>
    ELSE IF data[1].is_drifting
    THEN IF ~detected THEN <<TRUE, <<t>>>> ELSE <<detected, started>>
    ELSE IF detected /\ ~applied
    THEN <<FALSE, <<>>>>
    ELSE <<detected, started>>

\* The server as the demo sees it.
server_vars == <<threshold, check_interval, north_star, conversation_history,
                 drift_history, last_good_turn, all_texts, hosted, ret,
                 service_vars>>

\* run_demo up to the loop: POST /reset, turn = 1.
run_demo_reset ==
    /\ pc = "start"
    /\ reset_request
    /\ pc' = "input"
    /\ turn' = 1
    /\ UNCHANGED <<drift_detected, drift_started_turn, intervention_applied,
                   user_input, should_intervene, drift_data>>

\* An iteration from input() to the intervention decision: quit ends the
\* loop, an empty input repeats it, the first input is sent to /initialize.
demo_input(input) ==
    /\ pc = "input"
    /\ IF IsQuit(input)
       THEN /\ pc' = "done"
            /\ UNCHANGED <<server_vars, turn, drift_detected,
                           drift_started_turn, intervention_applied,
                           user_input, should_intervene, drift_data>>
       ELSE IF input = <<>>
       THEN UNCHANGED vars
       ELSE /\ turn <= MaxDemoTurns
            /\ IF turn = 1
               THEN initialize_conversation(input)
               ELSE UNCHANGED server_vars
            /\ should_intervene' =
                   ShouldIntervene(drift_detected, intervention_applied,
                                   drift_started_turn, turn)
            /\ intervention_applied' =
                   (intervention_applied \/ should_intervene')
            /\ user_input' = input
            /\ pc' = "respond"
            /\ UNCHANGED <<turn, drift_detected, drift_started_turn,
                           drift_data>>

\* The rest of the iteration: the agent's reply, POST /add-turn, the drift
\* flags, the natural ending or turn += 1.
demo_respond(agent_msg) ==
    /\ pc = "respond"
    /\ add_conversation_turn(user_input, agent_msg)
    /\ drift_data' = DriftData(response')
    /\ LET flags == UpdatedDriftFlags(drift_detected, drift_started_turn,
                        intervention_applied, drift_data', turn)
       IN  /\ drift_detected' = flags[1]
           /\ drift_started_turn' = flags[2]
    /\ IF NaturalEnding(user_input, agent_msg)
       THEN pc' = "done" /\ turn' = turn
       ELSE pc' = "input" /\ turn' = turn + 1
    /\ UNCHANGED <<intervention_applied, user_input, should_intervene>>

\* The server at start-up and the demo about to run.
InitDemo ==
    /\ NoRequest
    /\ DemoGlobals("start")
    /\ hosted = TRUE /\ threshold = 70 /\ check_interval = 3
    /\ north_star = <<>>
    /\ conversation_history = <<>>
    /\ drift_history = <<>>
    /\ last_good_turn = 0
    /\ all_texts = <<>>
    /\ ret = Call("init", FALSE, <<>>)

\* The demo's steps and, in between, those requests of the server's other
\* clients that change what /add-turn answers to the demo: goals, turns and
\* resets.
NextDemo ==
    \/ run_demo_reset
    \/ \E input \in DemoInputs : demo_input(input)
    \/ \E agent_msg \in AgentReplies(user_input) : demo_respond(agent_msg)
    \/ (\E g \in Goals : initialize_conversation(g)) /\ UNCHANGED demo_vars
    \/ (\E t \in TurnInputs : add_conversation_turn(t[1], t[2]))
           /\ UNCHANGED demo_vars
    \/ reset_request /\ UNCHANGED demo_vars

SpecDemo == InitDemo /\ [][NextDemo]_vars

----------------------------------------------------------------------------
(* Properties *)

\* A step of add_turn, check_drift, set_north_star: every operation records
\* itself in ret, so a step that changes the state is identified by ret'.op.
IsStepOf(op) == ret'.op = op /\ vars' # vars

LastVerdict(h) == h[Len(h)]

\* C1: on an engine whose goal has never been set (north_star is None),
\* every add_turn call raises, whatever the number of the turn.
C1_AddTurnBeforeGoalRaises ==
    (ret.op = "add_turn" /\ north_star = <<>>) => ret.raised

\* C2: a call of add_turn or check_drift that raises leaves
\* conversation_history, drift_history and last_good_turn as they were.
C2_FailedCallLeavesState ==
    [][ret'.raised =>
          UNCHANGED <<conversation_history, drift_history, last_good_turn>>]_vars

\* C3: check_drift on an engine whose goal has not been set raises and
\* appends nothing to drift_history.
C3_CheckDriftBeforeGoal ==
    [][(IsStepOf("check_drift") /\ north_star = <<>>) =>
          /\ ret'.raised
          /\ ret'.verdict = <<>>
          /\ drift_history' = drift_history]_vars

\* C3 witness: check_drift has just raised on an engine without a goal that
\* already holds a turn.
C3_Witness ==
    /\ ret.op = "check_drift"
    /\ ret.raised
    /\ north_star = <<>>
    /\ conversation_history # <<>>

\* C4: after any set_north_star call the summary is that of a fresh
\* session: total_turns = 0, last_good_turn = 1, drift_checks = 0 and
\* current_drift_status = false.
C4_SetGoalGivesFreshSession ==
    ret.op = "set_north_star" =>
        /\ get_conversation_summary.total_turns = 0
        /\ get_conversation_summary.last_good_turn = 1
        /\ get_conversation_summary.drift_checks = 0
        /\ get_conversation_summary.current_drift_status = FALSE

\* C5 as stated: over the lifetime of one engine instance (every step
\* except the replacement of the engine by reset) last_good_turn never
\* decreases, repeated set_north_star included.
C5_LastGoodNeverDecreases ==
    [][ret'.op # "reset" => last_good_turn' >= last_good_turn]_vars

\* C5 amended: add_turn and check_drift never decrease last_good_turn (the
\* engine threshold being positive); set_north_star sets it to 1.
C5_LastGoodMonotoneUnderTurnsAndChecks ==
    [][/\ (IsStepOf("add_turn") \/ IsStepOf("check_drift"))
             => last_good_turn' >= last_good_turn
       /\ IsStepOf("set_north_star") => last_good_turn' = 1]_vars

\* C5 witness: a drifting evaluation has just carried forward a good turn
\* beyond the first.
C5_Witness ==
    /\ ret.verdict # <<>>
    /\ ret.verdict[1].is_drifting
    /\ last_good_turn >= 2
    /\ ret.verdict[1].turn_number > last_good_turn

\* C6: with the goal set, add_turn returns a Verdict exactly when the
\* number of the turn it appended is a multiple of check_interval, that
\* Verdict is the one evaluation it records, and set_north_star records no
\* evaluation.
C6_VerdictIffIntervalHit ==
    [][/\ (IsStepOf("add_turn") /\ north_star # <<>>) =>
             /\ ~ret'.raised
             /\ (ret'.verdict # <<>>)
                   <=> IntervalHit(Len(conversation_history'), check_interval)
             /\ Len(drift_history') =
                   Len(drift_history) + (IF ret'.verdict # <<>> THEN 1 ELSE 0)
       /\ IsStepOf("set_north_star") => drift_history' = drift_history]_vars

\* C7: once set_north_star has returned, check_drift and every add_turn
\* complete without raising, and check_drift returns a Verdict, whatever
\* the goal text and the turn texts.
C7_VerdictAlwaysProduced ==
    (north_star # <<>> /\ ret.op \in {"check_drift", "add_turn"}) =>
        /\ ~ret.raised
        /\ ret.op = "check_drift" => ret.verdict # <<>>

\* C8: every Verdict in drift_history has is_drifting exactly when its
\* similarity_score is below the engine's threshold; a score equal to the
\* threshold is not drifting.
C8_DriftingIffBelowThreshold ==
    \A i \in 1..Len(drift_history) :
        drift_history[i].is_drifting
            <=> (drift_history[i].similarity_score < threshold)

\* C8 witness: a recorded Verdict whose score equals the threshold.
C8_Witness ==
    \E i \in 1..Len(drift_history) :
        /\ drift_history[i].similarity_score = threshold
        /\ ~drift_history[i].is_drifting

\* C9: an evaluation that is not drifting sets last_good_turn to the turn
\* count, a drifting one leaves it alone, and the Verdict's last_good_turn
\* is the engine's value after that.
C9_LastGoodUpdate ==
    [][Len(drift_history') = Len(drift_history) + 1 =>
          LET v == LastVerdict(drift_history')
          IN  /\ ret'.verdict = <<v>>
              /\ ~v.is_drifting => last_good_turn' = Len(conversation_history')
              /\ v.is_drifting => last_good_turn' = last_good_turn
              /\ v.last_good_turn = last_good_turn']_vars

\* C9 witness: two evaluations recorded, the first on track at turn 2 or
\* later, the second drifting and carrying that turn forward.
C9_Witness ==
    /\ Len(drift_history) = 2
    /\ ~drift_history[1].is_drifting
    /\ drift_history[1].last_good_turn >= 2
    /\ drift_history[2].is_drifting
    /\ drift_history[2].last_good_turn = drift_history[1].last_good_turn
    /\ last_good_turn = drift_history[2].last_good_turn

\* C10: a check_drift that returns a Verdict directly after another one
\* that did returns the same similarity_score and turn_number, and the two
\* calls together lengthen drift_history by exactly 2.
C10_CheckDriftTwice ==
    [][(/\ ret.op = "check_drift" /\ ret.verdict # <<>>
        /\ IsStepOf("check_drift") /\ ret'.verdict # <<>>) =>
          /\ ret'.verdict[1].similarity_score = ret.verdict[1].similarity_score
          /\ ret'.verdict[1].turn_number = ret.verdict[1].turn_number
          /\ Len(drift_history') = ret.checks_before + 2
          /\ SubSeq(drift_history', Len(drift_history') - 1, Len(drift_history'))
                = <<ret.verdict[1], ret'.verdict[1]>>]_vars

\* C10 witness: two Verdicts for the same non-empty history recorded one
\* after the other, the second by check_drift, at a turn count where
\* add_turn evaluates nothing.
C10_Witness ==
    /\ ret.op = "check_drift"
    /\ ret.verdict # <<>>
    /\ ret.checks_before >= 1
    /\ Len(drift_history) = ret.checks_before + 1
    /\ drift_history[ret.checks_before].turn_number = ret.verdict[1].turn_number
    /\ ret.verdict[1].turn_number >= 1
    /\ ~IntervalHit(ret.verdict[1].turn_number, check_interval)
    /\ drift_history[ret.checks_before].similarity_score
           = ret.verdict[1].similarity_score

\* The first sequence is an initial part of the second.
IsPrefix(p, q) == Len(p) <= Len(q) /\ SubSeq(q, 1, Len(p)) = p

\* C11: a check_drift that returns leaves conversation_history and the goal
\* (and the configuration and all_texts) unchanged and appends exactly the
\* returned Verdict to drift_history; last_good_turn is all else it may
\* change.
C11_CheckDriftFrame ==
    [][(IsStepOf("check_drift") /\ ~ret'.raised) =>
          /\ conversation_history' = conversation_history
          /\ north_star' = north_star
          /\ UNCHANGED <<threshold, check_interval, all_texts, hosted>>
          /\ ret'.verdict # <<>>
          /\ drift_history' = Append(drift_history, ret'.verdict[1])]_vars

\* C11 witness: check_drift has returned an on-track Verdict on a history
\* of two or more turns and moved last_good_turn to its end.
C11_Witness ==
    /\ ret.op = "check_drift"
    /\ ret.verdict # <<>>
    /\ ~ret.verdict[1].is_drifting
    /\ Len(conversation_history) >= 2
    /\ last_good_turn = Len(conversation_history)
    /\ Len(drift_history) = ret.checks_before + 1

\* C12: within one engine instance (every step but the replacement of the
\* engine by reset) the old conversation_history and the old drift_history
\* are unmodified prefixes of the new ones, whatever the operation.
C12_HistoriesAppendOnly ==
    [][ret'.op # "reset" =>
          /\ IsPrefix(conversation_history, conversation_history')
          /\ IsPrefix(drift_history, drift_history')]_vars

\* C12 witness: set_north_star has just been called on an engine that
\* holds turns and verdicts, and holds them still.
C12_Witness ==
    /\ ret.op = "set_north_star"
    /\ Len(conversation_history) >= 2
    /\ drift_history # <<>>

\* C13: the i-th turn of conversation_history has turn_number i, and
\* add_turn appends exactly one turn, numbered one more than the turns
\* there were.
C13_TurnNumbersGapless ==
    /\ \A i \in 1..Len(conversation_history) :
           conversation_history[i].turn_number = i
    /\ ret.op = "add_turn" =>
           /\ conversation_history # <<>>
           /\ conversation_history[Len(conversation_history)].turn_number
                  = Len(conversation_history)

\* C13 witness: add_turn has appended a third or later turn.
C13_Witness ==
    /\ ret.op = "add_turn"
    /\ Len(conversation_history) >= 3

\* C14: once the goal is set, last_good_turn is the number of a turn in
\* conversation_history or is 1.
C14_LastGoodIsATurnOrOne ==
    north_star # <<>> =>
        \/ last_good_turn = 1
        \/ 1 <= last_good_turn /\ last_good_turn <= Len(conversation_history)

\* C14 witness: last_good_turn names a turn that is neither the first nor
\* the latest.
C14_Witness ==
    /\ north_star # <<>>
    /\ last_good_turn >= 2
    /\ last_good_turn < Len(conversation_history)

\* C15: reset leaves a fresh engine without a goal whose threshold and
\* check_interval are those of the engine it replaces, so that the hosted
\* threshold is the start-up one after any number of resets.
C15_ResetKeepsConfiguration ==
    [][ret'.op = "reset" =>
          /\ threshold' = threshold
          /\ check_interval' = check_interval
          /\ north_star' = <<>>
          /\ conversation_history' = <<>>
          /\ drift_history' = <<>>]_vars

\* C16: generate_state_summary and get_conversation_summary change neither
\* conversation_history, drift_history, the goal nor last_good_turn (nor
\* anything else of the engine), so they evaluate nothing.
C16_ReadsArePure ==
    [][(IsStepOf("generate_state_summary")
          \/ IsStepOf("get_conversation_summary")) =>
          UNCHANGED <<threshold, check_interval, north_star,
                      conversation_history, drift_history, last_good_turn,
                      all_texts>>]_vars

\* C16 witness: a read has returned on an engine with a goal, turns and a
\* verdict.
C16_Witness ==
    /\ ret.op \in {"generate_state_summary", "get_conversation_summary"}
    /\ ~NorthStarFalsy(north_star)
    /\ conversation_history # <<>>
    /\ drift_history # <<>>
    /\ ret.checks_before = Len(drift_history)

\* C17: the dict get_conversation_summary returns has total_turns =
\* len(conversation_history), drift_checks = len(drift_history), the
\* engine's last_good_turn, and the is_drifting of the latest Verdict, or
\* false when there is none.
C17_SummaryAgreesWithState ==
    ret.op = "get_conversation_summary" =>
        /\ ret.summary # <<>>
        /\ ret.summary[1].total_turns = Len(conversation_history)
        /\ ret.summary[1].drift_checks = Len(drift_history)
        /\ ret.summary[1].last_good_turn = last_good_turn
        /\ ret.summary[1].north_star = north_star
        /\ drift_history = <<>> => ret.summary[1].current_drift_status = FALSE
        /\ drift_history # <<>> =>
               ret.summary[1].current_drift_status
                   = LastVerdict(drift_history).is_drifting

\* C17 witness: a summary taken after an on-track Verdict followed by a
\* drifting one.
C17_Witness ==
    /\ ret.op = "get_conversation_summary"
    /\ Len(drift_history) = 2
    /\ ~drift_history[1].is_drifting
    /\ drift_history[2].is_drifting
    /\ ret.summary[1].current_drift_status

\* The two texts and the score of an application of the fallback.
FallbackGoal == north_star[1]
FallbackCurrent == generate_state_summary(conversation_history)
FallbackScore == ret.verdict[1].similarity_score

\* No word of the one text is, in lower case, a word of the other.
DisjointVocabularies(a, b) ==
    \A i \in 1..Len(a), j \in 1..Len(b) : Lower(a[i]) # Lower(b[j])

\* C18 as stated: the fallback score is 0.0 for disjoint vocabularies, 1.0
\* for any two identical texts and 0.0 when the union is empty.
C18_FallbackScoreAsStated ==
    ret.op = "word_overlap" =>
        /\ ~ret.raised
        /\ DisjointVocabularies(FallbackGoal, FallbackCurrent)
               => FallbackScore = 0
        /\ FallbackGoal = FallbackCurrent => FallbackScore = 100
        /\ (FallbackGoal = <<>> /\ FallbackCurrent = <<>>)
               => FallbackScore = 0

\* C18 amended: the fallback score is the share of the lower-case words of
\* the two texts that occur in both; it is 0.0 for disjoint vocabularies,
\* 1.0 for two identical texts with at least one word, 0.0 when neither
\* text has a word, and the fallback does not raise.
C18_FallbackScore ==
    ret.op = "word_overlap" =>
        LET words == WordSet(FallbackGoal) \cup WordSet(FallbackCurrent)
            common == { w \in words :
                          /\ \E i \in 1..Len(FallbackGoal) :
                                 Lower(FallbackGoal[i]) = w
                          /\ \E j \in 1..Len(FallbackCurrent) :
                                 Lower(FallbackCurrent[j]) = w }
        IN  /\ ~ret.raised
            /\ DisjointVocabularies(FallbackGoal, FallbackCurrent)
                   => FallbackScore = 0
            /\ (FallbackGoal = FallbackCurrent /\ FallbackGoal # <<>>)
                   => FallbackScore = 100
            /\ words = {} => FallbackScore = 0
            /\ words # {} =>
                   /\ FallbackScore * Cardinality(words)
                          <= 100 * Cardinality(common)
                   /\ 100 * Cardinality(common)
                          < (FallbackScore + 1) * Cardinality(words)

\* C18 witness: the fallback has scored two identical texts of several
\* words, one of them capitalised, as 1.0.
C18_Witness ==
    /\ ret.op = "word_overlap"
    /\ FallbackGoal = FallbackCurrent
    /\ Len(FallbackGoal) >= 2
    /\ \E i \in 1..Len(FallbackGoal) : Lower(FallbackGoal[i]) # FallbackGoal[i]
    /\ FallbackScore = 100

\* C19: the similarity_score of every Verdict in drift_history lies in
\* [0, 1].
C19_ScoreInUnitInterval ==
    \A i \in 1..Len(drift_history) :
        /\ 0 <= drift_history[i].similarity_score
        /\ drift_history[i].similarity_score <= 100

\* The text of the latest min(3, n) of the n turns, oldest first, each
\* turn its user message and then its assistant response.
RecentText(h) ==
    LET n == Len(h)
        TurnText(i) == h[i].user_message \o h[i].assistant_response
    IN  CASE n = 0 -> <<>>
          [] n = 1 -> TurnText(1)
          [] n = 2 -> TurnText(1) \o TurnText(2)
          [] OTHER -> TurnText(n - 2) \o TurnText(n - 1) \o TurnText(n)

\* C20: generate_state_summary returns, and every evaluation scores the
\* goal against, the text of the latest min(3, n) turns in order, user
\* message before assistant response; the empty text when there is no
\* turn.
C20_WindowOfLatestThree ==
    /\ ret.op = "generate_state_summary" =>
           ret.text = <<RecentText(conversation_history)>>
    /\ (ret.op \in {"check_drift", "add_turn"} /\ ret.verdict # <<>>) =>
           ret.verdict[1].similarity_score
               = Similarity(north_star[1], RecentText(conversation_history))

\* C20 witness: the summary of four turns has been returned, the oldest
\* turn on topic and left out, and an evaluation of the same four turns
\* is recorded as drifting.
C20_Witness ==
    /\ ret.op = "generate_state_summary"
    /\ Len(conversation_history) = 4
    /\ conversation_history[1].user_message = <<"Refund">>
    /\ \A i \in 2..4 : conversation_history[i].user_message # <<"Refund">>
    /\ north_star = <<<<"refund", "order">>>>
    /\ drift_history # <<>>
    /\ LastVerdict(drift_history).turn_number = 4
    /\ LastVerdict(drift_history).is_drifting

\* The last request was served by one of the two drift endpoints.
DriftEndpoint == response.endpoint \in {"/add-turn", "/check-drift"}

\* C21: the server calls the supervisor exactly when the engine call of the
\* request returned a drifting Verdict: /add-turn answers null for a turn
\* that triggered no evaluation, the response for a Verdict that is not
\* drifting has supervisor_analysis and intervention_prompt null, and the
\* response for a drifting Verdict carries both.
C21_SupervisorIffDrifting ==
    LET drifting == ret.verdict # <<>> /\ ret.verdict[1].is_drifting
    IN  /\ Len(analyzed) <= 1
        /\ (analyzed # <<>>) <=> (DriftEndpoint /\ drifting)
        /\ (/\ response.endpoint = "/add-turn"
            /\ ~IntervalHit(Len(conversation_history), check_interval)) =>
               response = Response("/add-turn", 200, <<>>)
        /\ (DriftEndpoint /\ ret.verdict # <<>>) =>
               /\ response.status = 200
               /\ response.body # <<>>
               /\ response.body[1].is_drifting = drifting
               /\ response.body[1].similarity_score
                      = ret.verdict[1].similarity_score
               /\ response.body[1].turn_number = ret.verdict[1].turn_number
               /\ (response.body[1].supervisor_analysis # <<>>) <=> drifting
               /\ (response.body[1].intervention_prompt # <<>>) <=> drifting
               /\ drifting =>
                      /\ analyzed[1].north_star = north_star[1]
                      /\ analyzed[1].current_conversation
                             = generate_state_summary(conversation_history)
                      /\ analyzed[1].similarity_score
                             = ret.verdict[1].similarity_score
                      /\ response.body[1].supervisor_analysis[1]
                             = SupervisorData(analyzed[1].analysis)

\* C21 witness: /add-turn has answered the third turn with a drifting
\* Verdict that carries the supervisor's analysis and the intervention.
C21_Witness ==
    /\ response.endpoint = "/add-turn"
    /\ response.body # <<>>
    /\ response.body[1].is_drifting
    /\ response.body[1].turn_number = 3
    /\ response.body[1].supervisor_analysis # <<>>
    /\ response.body[1].intervention_prompt # <<>>
    /\ Len(analyzed) = 1

\* C22: when the remote call fails, analyze_drift does not raise and
\* returns pursuing_goal = (similarity_score >= 0.45), a realignment
\* instruction that restates the goal, and confidence low.
C22_FallbackAnalysis ==
    \A i \in 1..Len(analyzed) :
        analyzed[i].remote_failed =>
            /\ ~analyzed[i].raised
            /\ analyzed[i].analysis.is_pursuing_goal
                   <=> (analyzed[i].similarity_score >= 45)
            /\ analyzed[i].analysis.realignment_instruction
                   = <<"Refocus", "on:">> \o analyzed[i].north_star
            /\ analyzed[i].analysis.confidence = "low"

\* C22 witness: the remote call failed at a score of exactly 0.45 for a
\* goal of two words, and the fallback analysis takes the goal as pursued.
C22_Witness ==
    /\ analyzed # <<>>
    /\ analyzed[1].remote_failed
    /\ analyzed[1].similarity_score = 45
    /\ Len(analyzed[1].north_star) = 2
    /\ analyzed[1].analysis.is_pursuing_goal

\* A step of the demo that ends an iteration with a verdict in hand.
DemoReceives(is_drifting) ==
    /\ pc = "respond"
    /\ pc' # "respond"
    /\ drift_data' # <<>>
    /\ drift_data'[1].is_drifting = is_drifting

\* C23: in the demo loop an on-track verdict clears drift_detected and
\* drift_started_turn exactly when no intervention has been applied, nothing
\* else clears them, and once intervention_applied is true it stays true and
\* drift_detected is never cleared again.
C23_FlagClearedOnlyBeforeIntervention ==
    [][/\ (drift_detected /\ ~drift_detected') =>
              /\ DemoReceives(FALSE)
              /\ ~intervention_applied
              /\ drift_started_turn' = <<>>
       /\ (DemoReceives(FALSE) /\ drift_detected /\ ~intervention_applied) =>
              ~drift_detected' /\ drift_started_turn' = <<>>
       /\ intervention_applied =>
              /\ intervention_applied'
              /\ drift_detected
              /\ drift_detected'
              /\ drift_started_turn' = drift_started_turn]_vars

\* C23 witness: after the intervention an on-track verdict has come in and
\* drift_detected is still set.
C23_Witness ==
    /\ pc = "input"
    /\ intervention_applied
    /\ drift_detected
    /\ drift_started_turn # <<>>
    /\ drift_data # <<>>
    /\ ~drift_data[1].is_drifting

\* C24: in the demo loop the intervention is decided at most once, only
\* while drift_detected is set and at a turn at least 2 after
\* drift_started_turn, the turn of the drifting verdict that set the flag;
\* an on-track verdict before that clears the flag and the turn, so that
\* only a new drifting verdict can lead to an intervention.
C24_InterventionOnceAfterTwoTurns ==
    [][/\ ((intervention_applied' /\ ~intervention_applied)
              \/ (should_intervene' /\ pc = "input" /\ pc' = "respond")) =>
              /\ pc = "input" /\ pc' = "respond"
              /\ should_intervene'
              /\ ~intervention_applied
              /\ intervention_applied'
              /\ drift_detected
              /\ drift_started_turn # <<>>
              /\ turn >= drift_started_turn[1] + 2
       /\ intervention_applied => intervention_applied'
       /\ drift_detected' <=> (drift_started_turn' # <<>>)
       /\ (drift_started_turn' # <<>> /\ drift_started_turn' # drift_started_turn) =>
              /\ DemoReceives(TRUE)
              /\ ~drift_detected
              /\ drift_started_turn' = <<turn>>
       /\ (DemoReceives(FALSE) /\ ~intervention_applied) =>
              ~drift_detected' /\ drift_started_turn' = <<>>]_vars

\* C24 witness: the intervention has just been decided, exactly 2 turns
\* after a drift first detected at the second turn or later.
C24_Witness ==
    /\ pc = "respond"
    /\ should_intervene
    /\ intervention_applied
    /\ drift_detected
    /\ drift_started_turn # <<>>
    /\ drift_started_turn[1] >= 2
    /\ turn = drift_started_turn[1] + 2

\* C25: whenever the server has used the supervisor's fallback for a
\* drifting Verdict, the fallback reports pursuing_goal = false, with the
\* start-up engine as well as with the engine created by /reset.
C25_FallbackAgreesWithEngine ==
    (/\ DriftEndpoint
     /\ response.body # <<>>
     /\ response.body[1].is_drifting
     /\ analyzed # <<>>
     /\ analyzed[1].remote_failed) =>
        response.body[1].supervisor_analysis[1].pursuing_goal = FALSE

====
